---- MODULE Spec2Model ----
(***************************************************************************)
(* A model of scripts/run_rm.py: one run of the reward-model benchmark.    *)
(* The run parses its arguments, selects a model adapter by substring      *)
(* tests, loads and formats the dataset, builds the scoring pipeline,      *)
(* fixes the pad token, runs inference (uniform batched calls or the       *)
(* manual batch loop), aggregates per-subset accuracy, writes the result   *)
(* file and uploads it.                                                    *)
(*                                                                         *)
(* Strings that the code only tests with `in` (args.model,                 *)
(* args.chat_template) are modelled by the set of discriminating           *)
(* substrings they contain.  A text handed to a pipeline is a tagged value *)
(* [type, val]: type "str" for a rendered string, type "list" for a list   *)
(* of {role, content} turns, so that the isinstance tests of the code can  *)
(* be evaluated.                                                           *)
(***************************************************************************)
EXTENDS Integers, Sequences, FiniteSets, TLC

VARIABLES
    args,             \* parsed command line (get_args)
    hub,              \* what the external collaborators hold: dataset, tokenizer
    rm,               \* the reward model: record id -> its outputs
    quantized,
    custom_dialogue,
    model_builder,
    pipeline_builder,
    raw_dataset,
    dataset,
    mapped,           \* the examples as the map function returned them
    model_kwargs,
    reward_pipe,
    mode,             \* branch taken at the `if` of line 285
    step,             \* enumerate(dataloader) index
    batch,            \* the collated batch of the current iteration
    results,          \* the list of verdicts
    report,           \* the `results` dict built after inference
    file,             \* results/<model>.json
    uploads,          \* api.upload_file calls performed
    pc

vars == <<args, hub, rm, quantized, custom_dialogue, model_builder,
          pipeline_builder, raw_dataset, dataset, mapped, model_kwargs,
          reward_pipe, mode, step, batch, results, report, file, uploads, pc>>

---------------------------------------------------------------------------
(* Bounds of the model *)

MaxRecords == 3
MaxBatch == 2
MaxTokenId == 1

Substrings == {"oasst", "Starling", "openbmb", "PairRM", "SHP"}

\* identifiers: every combination of discriminating substrings
AllIds == SUBSET Substrings

\* a few identifiers: one per adapter, and two that match several adapters
SomeIds == {{}, {"Starling"}, {"PairRM"}, {"Starling", "PairRM"}}

Subsets == {"s1", "s2"}
Scores == {0, 1}

Min(a, b) == IF a < b THEN a ELSE b

RECURSIVE GCD(_, _)
GCD(a, b) == IF b = 0 THEN a ELSE GCD(b, a % b)

RECURSIVE SeqSum(_)
SeqSum(s) == IF s = <<>> THEN 0 ELSE Head(s) + SeqSum(Tail(s))

RECURSIVE SelectIdx(_, _, _)
\* the indices j >= i of s, in order, with s[j] = v
SelectIdx(s, i, v) ==
    IF i > Len(s) THEN <<>>
    ELSE IF s[i] = v THEN <<i>> \o SelectIdx(s, i + 1, v)
         ELSE SelectIdx(s, i + 1, v)

---------------------------------------------------------------------------
(* get_args *)

get_args(models, templates, batch_sizes) ==
    [model : models, chat_template : templates, direct_load : BOOLEAN,
     do_not_save : BOOLEAN, batch_size : batch_sizes, pref_sets : BOOLEAN]

\* `sub in s` for the discriminating substrings
In(sub, s) == sub \in s

---------------------------------------------------------------------------
(* Adapter selection, lines 93-126 *)

SelectStarlingFirst(a) ==
    LET hit(sub) == In(sub, a.model) \/ In(sub, a.chat_template) IN
    IF hit("Starling") THEN
        [model_builder |-> "build_starling_rm", pipeline_builder |-> "StarlingPipeline",
         quantized |-> FALSE, custom_dialogue |-> FALSE]
    ELSE IF hit("oasst") THEN
        [model_builder |-> "AutoModelForSequenceClassification", pipeline_builder |-> "pipeline",
         quantized |-> TRUE, custom_dialogue |-> FALSE]
    ELSE IF hit("openbmb") THEN
        [model_builder |-> "LlamaRewardModel", pipeline_builder |-> "OpenBMBPipeline",
         quantized |-> TRUE, custom_dialogue |-> FALSE]
    ELSE IF hit("PairRM") THEN
        [model_builder |-> "DebertaV2PairRM", pipeline_builder |-> "PairRMPipeline",
         quantized |-> TRUE, custom_dialogue |-> TRUE]
    ELSE IF hit("SHP") THEN
        [model_builder |-> "T5ForConditionalGeneration", pipeline_builder |-> "SHPPipeline",
         quantized |-> TRUE, custom_dialogue |-> TRUE]
    ELSE
        [model_builder |-> "AutoModelForSequenceClassification", pipeline_builder |-> "pipeline",
         quantized |-> TRUE, custom_dialogue |-> FALSE]

SelectAdapter(a) ==
    LET hit(sub) == In(sub, a.model) \/ In(sub, a.chat_template) IN
    IF hit("oasst") THEN
        [model_builder |-> "AutoModelForSequenceClassification", pipeline_builder |-> "pipeline",
         quantized |-> TRUE, custom_dialogue |-> FALSE]
    ELSE IF hit("Starling") THEN
        [model_builder |-> "build_starling_rm", pipeline_builder |-> "StarlingPipeline",
         quantized |-> FALSE, custom_dialogue |-> FALSE]
    ELSE IF hit("openbmb") THEN
        [model_builder |-> "LlamaRewardModel", pipeline_builder |-> "OpenBMBPipeline",
         quantized |-> TRUE, custom_dialogue |-> FALSE]
    ELSE IF hit("PairRM") THEN
        [model_builder |-> "DebertaV2PairRM", pipeline_builder |-> "PairRMPipeline",
         quantized |-> TRUE, custom_dialogue |-> TRUE]
    ELSE IF hit("SHP") THEN
        [model_builder |-> "T5ForConditionalGeneration", pipeline_builder |-> "SHPPipeline",
         quantized |-> TRUE, custom_dialogue |-> TRUE]
    ELSE
        [model_builder |-> "AutoModelForSequenceClassification", pipeline_builder |-> "pipeline",
         quantized |-> TRUE, custom_dialogue |-> FALSE]

Select ==
    /\ pc = "select"
    /\ LET s == SelectAdapter(args) IN
        /\ quantized' = s.quantized
        /\ custom_dialogue' = s.custom_dialogue
        /\ model_builder' = s.model_builder
        /\ pipeline_builder' = s.pipeline_builder
    /\ pc' = "load_dataset"
    /\ UNCHANGED <<args, hub, rm, raw_dataset, dataset, mapped, model_kwargs,
                   reward_pipe, mode, step, batch, results, report, file, uploads>>

---------------------------------------------------------------------------
(* The hosted dataset, lines 157-180.  Record i of the hub has the texts   *)
(* <<"P", i>>, <<"C", i>>, <<"R", i>> and the label hub.labels[i].         *)

SplitNames == <<"s1", "s2">>

Turn(role, content) == [role |-> role, content |-> content]

Str(v) == [type |-> "str", val |-> v]
TurnList(turns) == [type |-> "list", val |-> turns]

\* the benchmark set: single-turn, prompt is a string, `subset` is a column
EvalRecord(i) ==
    [prompt |-> <<"P", i>>, chosen |-> <<"C", i>>, rejected |-> <<"R", i>>,
     subset |-> hub.labels[i]]

\* a record of a preference test set: the prompt is already a turn list
\* (one user turn, or user/assistant/user for the even records)
PrefPrompt(i) ==
    IF i % 2 = 1 THEN <<Turn("user", <<"P", i>>)>>
    ELSE <<Turn("user", <<"P0", i>>), Turn("assistant", <<"A0", i>>),
           Turn("user", <<"P", i>>)>>

\* a split may or may not carry a `subset` column of its own
PrefRecord(i) ==
    IF hub.split_has_subset
    THEN [prompt |-> PrefPrompt(i), chosen |-> <<"C", i>>, rejected |-> <<"R", i>>,
          subset |-> <<"orig", i>>]
    ELSE [prompt |-> PrefPrompt(i), chosen |-> <<"C", i>>, rejected |-> <<"R", i>>]

rename_column(ex, old, new) ==
    [c \in (DOMAIN ex \ {old}) \cup {new} |-> IF c = new THEN ex[old] ELSE ex[c]]

add_column(ex, name, value) ==
    [c \in DOMAIN ex \cup {name} |-> IF c = name THEN value ELSE ex[c]]

remove_columns(ex, cols) == [c \in DOMAIN ex \ cols |-> ex[c]]

\* lines 164-173 for one split: its records, relabelled
SplitRecords(name) ==
    LET ids == SelectIdx(hub.labels, 1, name) IN
    [k \in 1..Len(ids) |->
        LET example == PrefRecord(ids[k])
            renamed == IF "subset" \in DOMAIN example
                       THEN rename_column(example, "subset", "subsubset")
                       ELSE example
        IN add_column(renamed, "subset", name)]

RECURSIVE concatenate_datasets(_, _)
concatenate_datasets(names, k) ==
    IF k > Len(names) THEN <<>>
    ELSE SplitRecords(names[k]) \o concatenate_datasets(names, k + 1)

load_dataset(a) ==
    IF a.pref_sets THEN concatenate_datasets(SplitNames, 1)
    ELSE [i \in 1..Len(hub.labels) |-> EvalRecord(i)]

LoadDataset ==
    /\ pc = "load_dataset"
    /\ raw_dataset' = load_dataset(args)
    /\ pc' = "format"
    /\ UNCHANGED <<args, hub, rm, quantized, custom_dialogue, model_builder,
                   pipeline_builder, dataset, mapped, model_kwargs, reward_pipe,
                   mode, step, batch, results, report, file, uploads>>

---------------------------------------------------------------------------
(* Dialogue formatting, lines 185-232 *)

make_conversation(prompt, answer) ==
    <<Turn("user", prompt), Turn("assistant", answer)>>

map_conversations(example) ==
    LET e1 == add_column(example, "text_chosen",
                  TurnList(make_conversation(example.prompt, example.chosen)))
    IN add_column(e1, "text_rejected",
                  TurnList(make_conversation(e1.prompt, e1.rejected)))

\* the mutation a prompt.append(...) would make: the prompt itself grows
map_conversations_testsets_inplace(example) ==
    LET p1 == Append(example.prompt, Turn("assistant", example.chosen))
        e1 == add_column([example EXCEPT !.prompt = p1], "text_chosen", TurnList(p1))
        p2 == Append(e1.prompt, Turn("assistant", e1.rejected))
    IN add_column([e1 EXCEPT !.prompt = p2], "text_rejected", TurnList(p2))

map_conversations_testsets(example) ==
    LET prompt == example.prompt
        e1 == add_column(example, "text_chosen",
                  TurnList(prompt \o <<Turn("assistant", example.chosen)>>))
    IN add_column(e1, "text_rejected",
                  TurnList(prompt \o <<Turn("assistant", e1.rejected)>>))

\* herm.prepare_dialogue: the conversation template renders prompt and
\* response into one string per response
prepare_dialogue(example, dialogue_template) ==
    LET e1 == add_column(example, "text_chosen",
                  Str([template |-> dialogue_template, prompt |-> example.prompt,
                       response |-> example.chosen]))
    IN add_column(e1, "text_rejected",
                  Str([template |-> dialogue_template, prompt |-> example.prompt,
                       response |-> example.rejected]))

\* Dataset.map(function, remove_columns): one output per input, same order
map_one(example) ==
    IF custom_dialogue THEN
        IF args.pref_sets THEN map_conversations_testsets(example)
        ELSE map_conversations(example)
    ELSE prepare_dialogue(example, args.chat_template)

removed_columns ==
    IF custom_dialogue THEN
        IF args.pref_sets THEN {"prompt", "chosen", "rejected", "subset", "subsubset"}
        ELSE {"prompt", "chosen", "rejected", "subset"}
    ELSE {"prompt", "chosen", "rejected"}

column_names(ds) == DOMAIN ds[1]

Format ==
    /\ pc = "format"
    /\ removed_columns \subseteq column_names(raw_dataset)
    /\ mapped' = [i \in 1..Len(raw_dataset) |-> map_one(raw_dataset[i])]
    /\ dataset' = [i \in 1..Len(raw_dataset) |->
                      remove_columns(map_one(raw_dataset[i]), removed_columns)]
    /\ pc' = "load_pipeline"
    /\ UNCHANGED <<args, hub, rm, quantized, custom_dialogue, model_builder,
                   pipeline_builder, raw_dataset, model_kwargs, reward_pipe,
                   mode, step, batch, results, report, file, uploads>>

\* Dataset.map refuses to remove a column the dataset does not have
\* (ValueError): the custom-dialogue path on the preference test sets names
\* `subsubset`, which exists only if the splits had a `subset` column.
MapFail ==
    /\ pc = "format"
    /\ ~(removed_columns \subseteq column_names(raw_dataset))
    /\ pc' = "map_error"
    /\ UNCHANGED <<args, hub, rm, quantized, custom_dialogue, model_builder,
                   pipeline_builder, raw_dataset, dataset, mapped, model_kwargs,
                   reward_pipe, mode, step, batch, results, report, file, uploads>>

---------------------------------------------------------------------------
(* Loading the pipeline, lines 237-270 *)

\* an optional token id: NoId is Python's None
NoId == <<>>
Id(k) == <<k>>

make_model_kwargs(q) == [load_in_8bit |-> q]

build_reward_pipe(a, builder, pipe_builder, kwargs) ==
    IF a.direct_load THEN
        [cls |-> pipe_builder, model |-> builder, load_in_8bit |-> kwargs.load_in_8bit,
         tokenizer |-> hub.tokenizer, config_pad_token_id |-> hub.config_pad_token_id]
    ELSE
        [cls |-> "pipeline", model |-> "auto", load_in_8bit |-> kwargs.load_in_8bit,
         tokenizer |-> hub.tokenizer, config_pad_token_id |-> hub.config_pad_token_id]

LoadPipeline ==
    /\ pc = "load_pipeline"
    /\ model_kwargs' = make_model_kwargs(quantized)
    /\ reward_pipe' = build_reward_pipe(args, model_builder, pipeline_builder,
                                        make_model_kwargs(quantized))
    /\ pc' = "pad_token"
    /\ UNCHANGED <<args, hub, rm, quantized, custom_dialogue, model_builder,
                   pipeline_builder, raw_dataset, dataset, mapped,
                   mode, step, batch, results, report, file, uploads>>

---------------------------------------------------------------------------
(* Pad token, lines 276-278 *)

\* a correction that overwrites a pad token that is set
set_pad_token_always(rp) ==
    [rp EXCEPT !.config_pad_token_id = rp.tokenizer.eos_token_id,
               !.tokenizer.pad_token_id = rp.tokenizer.eos_token_id]

set_pad_token(rp) ==
    IF rp.tokenizer.pad_token_id = NoId THEN
        [rp EXCEPT !.config_pad_token_id = rp.tokenizer.eos_token_id,
                   !.tokenizer.pad_token_id = rp.tokenizer.eos_token_id]
    ELSE rp

PadToken ==
    /\ pc = "pad_token"
    /\ reward_pipe' = set_pad_token(reward_pipe)
    /\ pc' = "infer"
    /\ UNCHANGED <<args, hub, rm, quantized, custom_dialogue, model_builder,
                   pipeline_builder, raw_dataset, dataset, mapped, model_kwargs,
                   mode, step, batch, results, report, file, uploads>>

---------------------------------------------------------------------------
(* The reward model behind the pipeline: a score per text, and for the     *)
(* pairwise pipelines a judgment per pair of texts.                        *)

LastResponse(text) ==
    IF text.type = "list" THEN text.val[Len(text.val)].content
    ELSE text.val.response

reward(text) ==
    LET r == LastResponse(text) IN
    IF r[1] = "C" THEN rm[r[2]].chosen ELSE rm[r[2]].rejected

\* a text-classification pipeline: one {label, score} per input, in order
call_dicts(texts) ==
    [i \in 1..Len(texts) |-> [label |-> "LABEL_0", score |-> reward(texts[i])]]

\* a custom pipeline that returns the scores directly (a tensor)
call_tensor(texts) == [i \in 1..Len(texts) |-> reward(texts[i])]

\* a pairwise pipeline: one boolean per (chosen, rejected) pair
call_pairwise(texts_chosen, texts_rejected) ==
    [i \in 1..Min(Len(texts_chosen), Len(texts_rejected)) |->
        rm[LastResponse(texts_chosen[i])[2]].prefer]

Column(ds, name) == [i \in 1..Len(ds) |-> ds[i][name]]

zip_len(a, b) == Min(Len(a), Len(b))

---------------------------------------------------------------------------
(* Mode, line 285 *)

uniform_when_generic_only(a, pipe_builder) == pipe_builder = "pipeline"

use_builtin_pipeline(a, pipe_builder) ==
    ~a.direct_load \/ pipe_builder = "pipeline"

ChooseMode ==
    /\ pc = "infer"
    /\ IF use_builtin_pipeline(args, pipeline_builder)
       THEN /\ mode' = "uniform"
            /\ pc' = "uniform"
            /\ UNCHANGED <<results, step>>
       ELSE /\ mode' = "manual"
            /\ pc' = "loop"
            /\ results' = <<>>
            /\ step' = 0
    /\ UNCHANGED <<args, hub, rm, quantized, custom_dialogue, model_builder,
                   pipeline_builder, raw_dataset, dataset, mapped, model_kwargs,
                   reward_pipe, batch, report, file, uploads>>

---------------------------------------------------------------------------
(* Uniform batched mode, lines 289-299 *)

pairwise_comparison_ge(chosen, rejected) == IF chosen >= rejected THEN 1 ELSE 0

pairwise_comparison(chosen, rejected) == IF chosen > rejected THEN 1 ELSE 0

UniformInference ==
    /\ pc = "uniform"
    /\ LET results_rej == call_dicts(Column(dataset, "text_rejected"))
           results_cho == call_dicts(Column(dataset, "text_chosen"))
           score_chosen == [i \in 1..Len(results_cho) |-> results_cho[i].score]
           score_rejected == [i \in 1..Len(results_rej) |-> results_rej[i].score]
       IN results' = [i \in 1..zip_len(score_chosen, score_rejected) |->
                         pairwise_comparison(score_chosen[i], score_rejected[i])]
    /\ pc' = "aggregate"
    /\ UNCHANGED <<args, hub, rm, quantized, custom_dialogue, model_builder,
                   pipeline_builder, raw_dataset, dataset, mapped, model_kwargs,
                   reward_pipe, mode, step, batch, report, file, uploads>>

---------------------------------------------------------------------------
(* Manual batch loop, lines 305-361 *)

\* a loader that drops a short final batch (drop_last=True)
num_batches_drop_last(n, size) == n \div size

\* DataLoader(dataset, batch_size, shuffle=False, drop_last=False)
num_batches(n, size) == (n + size - 1) \div size

batch_items(ds, size, k) ==
    SubSeq(ds, k * size + 1, Min((k + 1) * size, Len(ds)))

\* default_collate: a list of dicts becomes a dict of lists
default_collate(items) ==
    [kind |-> "dict",
     cols |-> [c \in DOMAIN items[1] |-> [j \in 1..Len(items) |-> items[j][c]]]]

custom_collate_fn(items) ==
    IF items[1].text_chosen.type = "list"
    THEN [kind |-> "list", items |-> items]
    ELSE default_collate(items)

\* lines 333-338
is_pairwise(a, pipe_builder) ==
    \/ In("PairRM", a.model)
    \/ In("PairRM", a.chat_template)
    \/ In("SHP", a.model)
    \/ In("SHP", a.chat_template)

NextBatch ==
    /\ pc = "loop"
    /\ step < num_batches(Len(dataset), args.batch_size)
    /\ batch' = custom_collate_fn(batch_items(dataset, args.batch_size, step))
    /\ pc' = IF is_pairwise(args, pipeline_builder) THEN "pairwise" ELSE "scalar"
    /\ UNCHANGED <<args, hub, rm, quantized, custom_dialogue, model_builder,
                   pipeline_builder, raw_dataset, dataset, mapped, model_kwargs,
                   reward_pipe, mode, step, results, report, file, uploads>>

native_verdict(result) == IF result THEN 1 ELSE 0

\* lines 339-342: one joint call, the judgments become the verdicts
JointCall ==
    /\ pc = "pairwise"
    /\ batch.kind = "list"
    /\ LET text_rejected == Column(batch.items, "text_rejected")
           text_chosen == Column(batch.items, "text_chosen")
           results_sub == call_pairwise(text_chosen, text_rejected)
       IN results' = results \o
              [i \in 1..Len(results_sub) |->
                  native_verdict(results_sub[i])]
    /\ step' = step + 1
    /\ pc' = "loop"
    /\ UNCHANGED <<args, hub, rm, quantized, custom_dialogue, model_builder,
                   pipeline_builder, raw_dataset, dataset, mapped, model_kwargs,
                   reward_pipe, mode, batch, report, file, uploads>>

\* The batch has the other shape than the branch indexes it by: iterating a
\* collated dict yields its keys (line 339), and a list of examples cannot be
\* indexed by a column name (line 344).  TypeError, the run ends.
wrong_batch_shape == IF pc = "pairwise" THEN batch.kind = "dict" ELSE batch.kind = "list"

CollateMismatch ==
    /\ pc \in {"pairwise", "scalar"}
    /\ wrong_batch_shape
    /\ pc' = "aborted"
    /\ UNCHANGED <<args, hub, rm, quantized, custom_dialogue, model_builder,
                   pipeline_builder, raw_dataset, dataset, mapped, model_kwargs,
                   reward_pipe, mode, step, batch, results, report, file, uploads>>

record_verdict(chosen, rejected) == IF chosen > rejected THEN 1 ELSE 0

\* lines 344-361: two calls; the result is a list of dicts or a tensor
SeparateCalls ==
    /\ pc = "scalar"
    /\ batch.kind = "dict"
    /\ \E shape \in {"dicts", "tensor"} :
        LET rewards_chosen == IF shape = "dicts" THEN call_dicts(batch.cols.text_chosen)
                              ELSE call_tensor(batch.cols.text_chosen)
            rewards_rejected == IF shape = "dicts" THEN call_dicts(batch.cols.text_rejected)
                                ELSE call_tensor(batch.cols.text_rejected)
            score_chosen == IF shape = "dicts"
                            THEN [i \in 1..Len(rewards_chosen) |-> rewards_chosen[i].score]
                            ELSE rewards_chosen
            score_rejected == IF shape = "dicts"
                              THEN [i \in 1..Len(rewards_rejected) |-> rewards_rejected[i].score]
                              ELSE rewards_rejected
        IN results' = results \o
               [i \in 1..zip_len(score_chosen, score_rejected) |->
                   record_verdict(score_chosen[i], score_rejected[i])]
    /\ step' = step + 1
    /\ pc' = "loop"
    /\ UNCHANGED <<args, hub, rm, quantized, custom_dialogue, model_builder,
                   pipeline_builder, raw_dataset, dataset, mapped, model_kwargs,
                   reward_pipe, mode, batch, report, file, uploads>>

LoopExit ==
    /\ pc = "loop"
    /\ step >= num_batches(Len(dataset), args.batch_size)
    /\ pc' = "aggregate"
    /\ UNCHANGED <<args, hub, rm, quantized, custom_dialogue, model_builder,
                   pipeline_builder, raw_dataset, dataset, mapped, model_kwargs,
                   reward_pipe, mode, step, batch, results, report, file, uploads>>

\* an inference call raises: nothing catches it
InferenceFail ==
    /\ pc \in {"uniform", "pairwise", "scalar"}
    /\ pc' = "aborted"
    /\ UNCHANGED <<args, hub, rm, quantized, custom_dialogue, model_builder,
                   pipeline_builder, raw_dataset, dataset, mapped, model_kwargs,
                   reward_pipe, mode, step, batch, results, report, file, uploads>>

---------------------------------------------------------------------------
(* Aggregation, lines 367-379 *)

\* num_correct / num_total, as the fraction in lowest terms
true_div(n, d) == LET g == GCD(n, d) IN <<n \div g, d \div g>>

unique(ds, name) == {ds[i][name] : i \in 1..Len(ds)}

\* accuracy over the whole dataset, whatever the subset
subset_accuracy_unfiltered(out_dataset, subset) ==
    LET column == [k \in 1..Len(out_dataset) |-> out_dataset[k].results]
    IN true_div(SeqSum(column), Len(column))

subset_accuracy(out_dataset, subset) ==
    LET ids == SelectIdx(Column(out_dataset, "subset"), 1, subset)
        column == [k \in 1..Len(ids) |-> out_dataset[ids[k]].results]
        num_correct == SeqSum(column)
        num_total == Len(column)
    IN true_div(num_correct, num_total)

build_report(a, raw, verdicts) ==
    LET out_dataset == [i \in 1..Len(raw) |-> add_column(raw[i], "results", verdicts[i])]
        present_subsets == unique(raw, "subset")
    IN [k \in {"model", "chat_template"} \cup present_subsets |->
           IF k = "model" THEN a.model
           ELSE IF k = "chat_template" THEN a.chat_template
           ELSE subset_accuracy(out_dataset, k)]

Aggregate ==
    /\ pc = "aggregate"
    /\ Len(results) = Len(raw_dataset)
    /\ report' = build_report(args, raw_dataset, results)
    /\ pc' = "write"
    /\ UNCHANGED <<args, hub, rm, quantized, custom_dialogue, model_builder,
                   pipeline_builder, raw_dataset, dataset, mapped, model_kwargs,
                   reward_pipe, mode, step, batch, results, file, uploads>>

\* add_column, unique or filter raises
AggregateFail ==
    /\ pc = "aggregate"
    /\ pc' = "aborted"
    /\ UNCHANGED <<args, hub, rm, quantized, custom_dialogue, model_builder,
                   pipeline_builder, raw_dataset, dataset, mapped, model_kwargs,
                   reward_pipe, mode, step, batch, results, report, file, uploads>>

---------------------------------------------------------------------------
(* Result file and upload, lines 385-409 *)

NoFile == [exists |-> FALSE]

WriteFile ==
    /\ pc = "write"
    /\ file' = [exists |-> TRUE, dumped |-> report]
    /\ pc' = "upload"
    /\ UNCHANGED <<args, hub, rm, quantized, custom_dialogue, model_builder,
                   pipeline_builder, raw_dataset, dataset, mapped, model_kwargs,
                   reward_pipe, mode, step, batch, results, report, uploads>>

upload_always(a) == TRUE

should_upload(a) == ~a.do_not_save

Upload ==
    /\ pc = "upload"
    /\ should_upload(args)
    /\ uploads' = Append(uploads,
                      [repo_id |-> IF ~args.pref_sets THEN "EVAL_REPO" ELSE "PREFS_REPO",
                       content |-> file.dumped])
    /\ pc' = "done"
    /\ UNCHANGED <<args, hub, rm, quantized, custom_dialogue, model_builder,
                   pipeline_builder, raw_dataset, dataset, mapped, model_kwargs,
                   reward_pipe, mode, step, batch, results, report, file>>

SkipUpload ==
    /\ pc = "upload"
    /\ ~should_upload(args)
    /\ pc' = "done"
    /\ UNCHANGED <<args, hub, rm, quantized, custom_dialogue, model_builder,
                   pipeline_builder, raw_dataset, dataset, mapped, model_kwargs,
                   reward_pipe, mode, step, batch, results, report, file, uploads>>

---------------------------------------------------------------------------
(* Specifications *)

Labelings(n) == UNION {[1..k -> Subsets] : k \in 1..n}

TokenIds == {NoId} \cup {Id(k) : k \in 0..MaxTokenId}

\* the reward models that order the two responses either way
DecidedOutputs ==
    {[chosen |-> 1, rejected |-> 0, prefer |-> TRUE],
     [chosen |-> 0, rejected |-> 1, prefer |-> FALSE]}

\* every pair of scores, with either judgment
AllOutputs == [chosen : Scores, rejected : Scores, prefer : BOOLEAN]

InitWith(argset, labelings, tokenizers, config_pads, outputs) ==
    /\ args \in argset
    /\ hub \in [labels : labelings, split_has_subset : BOOLEAN,
                tokenizer : tokenizers, config_pad_token_id : config_pads]
    /\ rm \in [1..Len(hub.labels) -> outputs]
    /\ quantized = TRUE
    /\ custom_dialogue = FALSE
    /\ model_builder = "unset"
    /\ pipeline_builder = "unset"
    /\ raw_dataset = <<>>
    /\ dataset = <<>>
    /\ mapped = <<>>
    /\ model_kwargs = [load_in_8bit |-> TRUE]
    /\ reward_pipe = [cls |-> "unset"]
    /\ mode = "undecided"
    /\ step = 0
    /\ batch = [kind |-> "unset"]
    /\ results = <<>>
    /\ report = [k \in {} |-> 0]
    /\ file = NoFile
    /\ uploads = <<>>
    /\ pc = "select"

Next ==
    \/ Select
    \/ LoadDataset
    \/ Format
    \/ MapFail
    \/ LoadPipeline
    \/ PadToken
    \/ ChooseMode
    \/ UniformInference
    \/ NextBatch
    \/ JointCall
    \/ CollateMismatch
    \/ SeparateCalls
    \/ LoopExit
    \/ InferenceFail
    \/ Aggregate
    \/ AggregateFail
    \/ WriteFile
    \/ Upload
    \/ SkipUpload

\* the data path: a few identifiers, every labelling and batch size
Init ==
    InitWith(get_args(SomeIds, {{}}, 1..MaxBatch), Labelings(MaxRecords),
             {[pad_token_id |-> NoId, eos_token_id |-> Id(0)]}, {NoId},
             DecidedOutputs)

Spec == Init /\ [][Next]_vars

\* adapter selection: every identifier and template name, one record
InitAdapters ==
    InitWith(get_args(AllIds, AllIds, {1}), {<<"s1">>},
             {[pad_token_id |-> NoId, eos_token_id |-> Id(0)]}, {NoId},
             {[chosen |-> 1, rejected |-> 0, prefer |-> TRUE]})

SpecAdapters == InitAdapters /\ [][Next]_vars

\* the scores: every pair of scores and judgment, up to two records
InitScores ==
    InitWith(get_args(SomeIds, {{}}, {1, 2}), {<<"s1">>, <<"s1", "s2">>},
             {[pad_token_id |-> NoId, eos_token_id |-> Id(0)]}, {NoId},
             AllOutputs)

SpecScores == InitScores /\ [][Next]_vars

\* the tokenizers: every pad, eos and config pad id
InitTokenizers ==
    InitWith(get_args(SomeIds, {{}}, {1}), {<<"s1">>},
             [pad_token_id : TokenIds, eos_token_id : TokenIds], TokenIds,
             {[chosen |-> 1, rejected |-> 0, prefer |-> TRUE]})

SpecTokenizers == InitTokenizers /\ [][Next]_vars

---------------------------------------------------------------------------
(* Properties *)

IsPrefix(a, b) == Len(a) <= Len(b) /\ SubSeq(b, 1, Len(a)) = a

Hit(sub) == sub \in args.model \/ sub \in args.chat_template

\* the id of the hub record behind raw_dataset[k]
RecordId(k) == raw_dataset[k].chosen[2]

Inferred == pc \in {"aggregate", "write", "upload", "done"}
Reported == pc \in {"write", "upload", "done"}
Formatted == pc \notin {"select", "load_dataset", "format", "map_error"}

\* the records carrying a subset label, and those of them judged correct
Carrying(s) == {i \in 1..Len(raw_dataset) : raw_dataset[i].subset = s}
Correct(s) == {i \in Carrying(s) : results[i] = 1}

\* C1: whenever the verdicts come from scalar scores (uniform batched mode,
\* or the scalar branch of the manual loop), the verdict recorded for a record
\* is 1 exactly when the score of its chosen text is greater than the score
\* of its rejected text, and 0 otherwise; equal scores give 0.
C1_VerdictIffChosenGreater ==
    (mode = "uniform" \/ (mode = "manual" /\ ~is_pairwise(args, pipeline_builder))) =>
        \A k \in 1..Len(results) :
            LET chosen_score == reward(dataset[k].text_chosen)
                rejected_score == reward(dataset[k].text_rejected)
            IN /\ results[k] \in {0, 1}
               /\ results[k] = 1 <=> chosen_score > rejected_score
               /\ chosen_score = rejected_score => results[k] = 0

C1_Witness ==
    /\ mode = "manual"
    /\ pc = "aggregate"
    /\ ~is_pairwise(args, pipeline_builder)
    /\ Len(results) = 2
    /\ reward(dataset[1].text_chosen) = reward(dataset[1].text_rejected)
    /\ results[1] = 0
    /\ results[2] = 1

\* C2: once aggregation is done, the report has exactly the keys model,
\* chat_template and one key per subset label present in the dataset; the
\* value of a subset is num_correct / num_total with num_total the number of
\* records carrying the label (at least 1) and num_correct the number of
\* them with verdict 1.
C2_ReportIsSubsetAccuracy ==
    Reported =>
        /\ DOMAIN report = {"model", "chat_template"}
                             \cup {raw_dataset[i].subset : i \in 1..Len(raw_dataset)}
        /\ \A s \in DOMAIN report \ {"model", "chat_template"} :
              /\ Cardinality(Carrying(s)) >= 1
              /\ report[s][2] >= 1
              /\ report[s][1] * Cardinality(Carrying(s))
                    = report[s][2] * Cardinality(Correct(s))
              /\ GCD(report[s][1], report[s][2]) = 1

C2_Witness ==
    /\ pc = "write"
    /\ Column(raw_dataset, "subset") = <<"s1", "s1">>
    /\ results = <<1, 0>>
    /\ DOMAIN report = {"model", "chat_template", "s1"}
    /\ report["s1"] = <<1, 2>>

\* C3 as claimed: quantized is false exactly for the model identifiers that
\* contain "Starling".
C3_StarlingInModelOnly ==
    pc # "select" => (quantized = FALSE <=> "Starling" \in args.model)

\* C3, amended: quantized is false exactly when "Starling" occurs in the
\* model identifier or in the template name and "oasst" occurs in neither
\* (the oasst test comes first); "openbmb", "PairRM" and "SHP" do not matter.
\* The model kwargs ask for 8-bit loading exactly when quantized is true.
C3_QuantizedIffStarlingSelected ==
    /\ pc # "select" => (quantized = FALSE <=> Hit("Starling") /\ ~Hit("oasst"))
    /\ pc \notin {"select", "load_dataset", "format", "map_error", "load_pipeline"} =>
           model_kwargs.load_in_8bit = quantized

C3_Witness ==
    /\ pc = "pad_token"
    /\ args.model = {"Starling", "openbmb", "PairRM", "SHP"}
    /\ args.chat_template = {"SHP"}
    /\ quantized = FALSE
    /\ model_kwargs.load_in_8bit = FALSE

\* C4 as claimed: in the manual loop a batch takes the joint-call branch
\* exactly when the selected adapter is PairRM or SHP.
C4_JointCallIffPairwiseAdapter ==
    pc \in {"pairwise", "scalar"} =>
        (pc = "pairwise" <=> pipeline_builder \in {"PairRMPipeline", "SHPPipeline"})

\* C5: the result file is written and the upload is made only after every
\* record has its verdict and the report has the accuracy of every present
\* subset; a run that failed has neither file nor upload; there is at most
\* one upload, and none with do_not_save.
C5_NoPartialResults ==
    /\ file.exists =>
          /\ Reported
          /\ Len(results) = Len(hub.labels)
          /\ \A k \in 1..Len(results) : results[k] \in {0, 1}
          /\ {hub.labels[i] : i \in 1..Len(hub.labels)} \subseteq DOMAIN report
          /\ file.dumped = report
    /\ uploads # <<>> =>
          /\ file.exists
          /\ pc = "done"
          /\ uploads[1].content = report
    /\ pc \in {"aborted", "map_error"} => ~file.exists /\ uploads = <<>>
    /\ Len(uploads) <= 1
    /\ args.do_not_save => uploads = <<>>
    /\ pc = "done" /\ ~args.do_not_save => Len(uploads) = 1

C5_Witness ==
    /\ pc = "done"
    /\ Len(uploads) = 1
    /\ file.exists
    /\ Len(results) = 3
    /\ DOMAIN report = {"model", "chat_template", "s1", "s2"}

\* C6: with custom dialogue, text_chosen is [user: prompt, assistant: chosen]
\* and text_rejected is [user: prompt, assistant: rejected]; on the preference
\* test sets they are the prompt's turn list with one assistant turn appended,
\* and the prompt of the mapped example is the original one.  Formatting
\* keeps the number and the order of the records and drops the prompt, chosen
\* and rejected columns.
C6_StructuredTurns ==
    Formatted =>
        /\ Len(dataset) = Len(raw_dataset)
        /\ Len(mapped) = Len(raw_dataset)
        /\ \A i \in 1..Len(dataset) :
              /\ DOMAIN dataset[i] \cap {"prompt", "chosen", "rejected"} = {}
              /\ {"text_chosen", "text_rejected"} \subseteq DOMAIN dataset[i]
              /\ custom_dialogue => mapped[i].prompt = raw_dataset[i].prompt
              /\ custom_dialogue /\ ~args.pref_sets =>
                    /\ dataset[i].text_chosen.type = "list"
                    /\ dataset[i].text_chosen.val =
                          <<[role |-> "user", content |-> raw_dataset[i].prompt],
                            [role |-> "assistant", content |-> raw_dataset[i].chosen]>>
                    /\ dataset[i].text_rejected.type = "list"
                    /\ dataset[i].text_rejected.val =
                          <<[role |-> "user", content |-> raw_dataset[i].prompt],
                            [role |-> "assistant", content |-> raw_dataset[i].rejected]>>
              /\ custom_dialogue /\ args.pref_sets =>
                    /\ dataset[i].text_chosen.type = "list"
                    /\ dataset[i].text_chosen.val =
                          Append(raw_dataset[i].prompt,
                                 [role |-> "assistant", content |-> raw_dataset[i].chosen])
                    /\ dataset[i].text_rejected.type = "list"
                    /\ dataset[i].text_rejected.val =
                          Append(raw_dataset[i].prompt,
                                 [role |-> "assistant", content |-> raw_dataset[i].rejected])

C6_Witness ==
    /\ pc = "load_pipeline"
    /\ custom_dialogue
    /\ args.pref_sets
    /\ Len(dataset) = 3
    /\ \E i \in 1..3 : Len(raw_dataset[i].prompt) = 3 /\ Len(dataset[i].text_chosen.val) = 4
    /\ \E i \in 1..3 : Len(raw_dataset[i].prompt) = 1 /\ Len(dataset[i].text_rejected.val) = 2

\* C7: after the pad-token correction, a tokenizer that had no pad token has
\* the eos token as pad token, and so has the model config; a tokenizer that
\* had a pad token is as it was, and so is the model config; applying the
\* correction again changes nothing.
C7_PadTokenCorrection ==
    pc \notin {"select", "load_dataset", "format", "map_error", "load_pipeline",
               "pad_token"} =>
        /\ hub.tokenizer.pad_token_id = NoId =>
              /\ reward_pipe.tokenizer.pad_token_id = hub.tokenizer.eos_token_id
              /\ reward_pipe.config_pad_token_id = hub.tokenizer.eos_token_id
        /\ hub.tokenizer.pad_token_id # NoId =>
              /\ reward_pipe.tokenizer.pad_token_id = hub.tokenizer.pad_token_id
              /\ reward_pipe.config_pad_token_id = hub.config_pad_token_id
        /\ reward_pipe.tokenizer.eos_token_id = hub.tokenizer.eos_token_id
        /\ set_pad_token(reward_pipe) = reward_pipe

C7_Witness ==
    /\ pc = "infer"
    /\ hub.tokenizer.pad_token_id = NoId
    /\ hub.tokenizer.eos_token_id = Id(1)
    /\ hub.config_pad_token_id = Id(0)
    /\ reward_pipe.tokenizer.pad_token_id = Id(1)
    /\ reward_pipe.config_pad_token_id = Id(1)

\* C8 as claimed: the mode follows the adapter alone: uniform exactly for the
\* generic pipeline, manual exactly for a custom pipeline.
C8_ModeByAdapterAlone ==
    mode # "undecided" =>
        /\ mode = "uniform" <=> pipeline_builder = "pipeline"
        /\ mode = "manual" <=>
              pipeline_builder \in {"StarlingPipeline", "OpenBMBPipeline",
                                    "PairRMPipeline", "SHPPipeline"}

\* C8, amended: the run is in uniform batched mode exactly when the
\* direct-load flag is unset or the selected pipeline wrapper is the standard
\* pipeline, and in the manual loop exactly when the flag is set and a custom
\* pipeline (Starling, openbmb, PairRM, SHP) is selected.
C8_ModeByDirectLoadAndAdapter ==
    /\ mode # "undecided" =>
          /\ mode = "uniform" <=> (~args.direct_load \/ pipeline_builder = "pipeline")
          /\ mode = "manual" <=>
                (args.direct_load /\
                 pipeline_builder \in {"StarlingPipeline", "OpenBMBPipeline",
                                       "PairRMPipeline", "SHPPipeline"})
    /\ pc = "uniform" => mode = "uniform"
    /\ pc \in {"loop", "pairwise", "scalar"} => mode = "manual"
    /\ Inferred => mode # "undecided"

C8_Witness ==
    /\ pc = "uniform"
    /\ mode = "uniform"
    /\ pipeline_builder = "StarlingPipeline"
    /\ ~args.direct_load

\* C9 as claimed: the texts handed to the uniform batched calls are strings,
\* never turn lists.
C9_UniformInputsAreStrings ==
    pc = "uniform" =>
        \A i \in 1..Len(dataset) :
            /\ dataset[i].text_chosen.type = "str"
            /\ dataset[i].text_rejected.type = "str"

\* the verdict the reward model gives the hub record i in this run
ExpectedVerdict(i) ==
    IF is_pairwise(args, pipeline_builder)
    THEN (IF rm[i].prefer THEN 1 ELSE 0)
    ELSE (IF rm[i].chosen > rm[i].rejected THEN 1 ELSE 0)

\* the texts of the current batch, in batch order
BatchChosen == IF batch.kind = "list" THEN Column(batch.items, "text_chosen")
               ELSE batch.cols.text_chosen

C10_LoopState ==
    mode = "manual" =>
        /\ \A k \in 1..Len(results) :
              Len(results) <= Len(raw_dataset) /\ results[k] = ExpectedVerdict(RecordId(k))
        /\ pc = "loop" =>
              Len(results) = Min(step * args.batch_size, Len(raw_dataset))
        /\ pc \in {"pairwise", "scalar"} =>
              /\ Len(results) = step * args.batch_size
              /\ Len(BatchChosen) =
                    Min(args.batch_size, Len(raw_dataset) - step * args.batch_size)
              /\ Len(BatchChosen) >= 1
              /\ \A j \in 1..Len(BatchChosen) :
                    LastResponse(BatchChosen[j])[2]
                        = RecordId(step * args.batch_size + j)
        /\ pc = "aggregate" => Len(results) = Len(raw_dataset)

\* C10: in the manual loop the batches are taken in dataset order, the short
\* final batch included; a batch starts only when the verdicts of all earlier
\* batches are in the list; the list only grows by appending; at loop exit
\* it holds one verdict per record, the one at index i for record i.
C10_SequentialLoop ==
    /\ []C10_LoopState
    /\ [][mode = "manual" => IsPrefix(results, results')]_vars

C10_Witness ==
    /\ mode = "manual"
    /\ pc = "aggregate"
    /\ args.batch_size = 2
    /\ step = 2
    /\ Len(results) = 3
    /\ results = <<1, 0, 1>>

====
